---- MODULE Spec2Model ----
(***************************************************************************)
(* Calibration propagation of the transform catalog in nion/data/Core.py.  *)
(*                                                                         *)
(* A catalog entry is a pure function from a calibrated array (and its     *)
(* parameters) to an outcome: a calibrated array, the absent result None,  *)
(* or a raised exception.  The state machine calls catalog entries on a    *)
(* current value and records the input, the call and its outcome.          *)
(*                                                                         *)
(* Python floats are modelled as exact rationals <<numerator, denominator>>*)
(* (denominator > 0, lowest terms).  A payload is a shape, a dtype and a   *)
(* map from index tuples to element tags; an element taken over from a     *)
(* source keeps the source's tag, an element computed by the numeric       *)
(* kernel has the tag Computed.                                            *)
(***************************************************************************)
EXTENDS Integers, Sequences, FiniteSets, TLC

\* ------------------------------------------------------------------ bounds
\* largest extent of an axis of a generated input
MaxDim == 3
\* largest rank of a generated input
MaxRank == 3
\* longest chain of catalog calls in the chained specifications
MaxChain == 2

\* ------------------------------------------------------- float arithmetic
Abs(n) == IF n < 0 THEN -n ELSE n

Min(a, b) == IF a < b THEN a ELSE b

Max(a, b) == IF a < b THEN b ELSE a

RECURSIVE GCD(_, _)
GCD(a, b) == IF b = 0 THEN a ELSE GCD(b, a % b)

\* the rational n/d in lowest terms with a positive denominator (d # 0)
Rat(n, d) ==
    LET g == GCD(Abs(n), Abs(d))
        s == IF d < 0 THEN -1 ELSE 1
    IN  << (s * n) \div g, (s * d) \div g >>

RatInt(n) == << n, 1 >>

RatAdd(a, b) == Rat(a[1] * b[2] + b[1] * a[2], a[2] * b[2])

RatMul(a, b) == Rat(a[1] * b[1], a[2] * b[2])

\* a / b, for b # 0
RatDiv(a, b) == Rat(a[1] * b[2], a[2] * b[1])

\* Python's int(): truncation towards zero
ToInt(a) == IF a[1] >= 0 THEN a[1] \div a[2] ELSE -((-a[1]) \div a[2])

\* ------------------------------------------------------------ Calibration
Calibration(offset, scale, units) ==
    [offset |-> offset, scale |-> scale, units |-> units]

\* Calibration() with no arguments: offset 0.0, scale 1.0, units ""
Uncalibrated == Calibration(RatInt(0), RatInt(1), "")

\* -------------------------------------------------------------- payloads
\* the tag of an element produced by the numeric kernel
Computed == << >>

RECURSIVE Indices(_)
\* the index tuples (0-based) of an array of the given shape
Indices(shape) ==
    IF shape = << >> THEN { << >> }
    ELSE { << i >> \o rest : i \in 0 .. (Head(shape) - 1), rest \in Indices(Tail(shape)) }

RECURSIVE Product(_)
Product(shape) == IF shape = << >> THEN 1 ELSE Head(shape) * Product(Tail(shape))

NDArray(shape, dtype, elems) == [shape |-> shape, dtype |-> dtype, elems |-> elems]

\* the payload of a result whose elements come out of the numeric kernel
KernelArray(shape, dtype) == NDArray(shape, dtype, [idx \in Indices(shape) |-> Computed])

\* a payload whose elements are tagged by their own index
SourceArray(shape, dtype) == NDArray(shape, dtype, [idx \in Indices(shape) |-> idx])

NoArray == NDArray(<< >>, "", << >>)

\* outcomes of the nested calculate_data functions; view says that the
\* returned array shares the storage of the input's payload
Data(a) == [kind |-> "data", exc |-> "", data |-> a, view |-> FALSE]

\* a payload returned as a numpy view of the input's payload
DataView(a) == [kind |-> "data", exc |-> "", data |-> a, view |-> TRUE]

NoData == [kind |-> "none", exc |-> "", data |-> NoArray, view |-> FALSE]

DataRaise(e) == [kind |-> "raise", exc |-> e, data |-> NoArray, view |-> FALSE]

\* ---------------------------------------------------------------- Image
is_shape_and_dtype_rgb(shape, dtype) ==
    Len(shape) >= 2 /\ shape[Len(shape)] = 3 /\ dtype = "uint8"

is_shape_and_dtype_rgba(shape, dtype) ==
    Len(shape) >= 2 /\ shape[Len(shape)] = 4 /\ dtype = "uint8"

is_shape_and_dtype_rgb_type(shape, dtype) ==
    is_shape_and_dtype_rgb(shape, dtype) \/ is_shape_and_dtype_rgba(shape, dtype)

\* the shape without a trailing colour channel axis
dimensional_shape_from_shape_and_dtype(shape, dtype) ==
    IF is_shape_and_dtype_rgb_type(shape, dtype) THEN SubSeq(shape, 1, Len(shape) - 1) ELSE shape

SupportedDtypes == {"float64", "complex128", "uint8", "int64"}

\* has_shape is FALSE when the shape and dtype are None
is_shape_and_dtype_valid(has_shape, shape, dtype) ==
    /\ has_shape
    /\ dtype \in SupportedDtypes
    /\ Len(dimensional_shape_from_shape_and_dtype(shape, dtype)) > 0
    /\ \A i \in 1 .. Len(shape) : shape[i] > 0

is_shape_and_dtype_1d(shape, dtype) ==
    Len(dimensional_shape_from_shape_and_dtype(shape, dtype)) = 1

is_shape_and_dtype_2d(shape, dtype) ==
    Len(dimensional_shape_from_shape_and_dtype(shape, dtype)) = 2

\* ------------------------------------------------------ DataAndMetadata
\* new_data_and_metadata(data, intensity_calibration, dimensional_calibrations,
\* metadata, timestamp): the value holding exactly what it is given; d is the
\* outcome of calculate_data (a payload or None)
new_data_and_metadata(d, intensity_calibration, dimensional_calibrations, metadata) ==
    [has_data |-> d.kind = "data",
     data |-> d.data,
     intensity_calibration |-> intensity_calibration,
     dimensional_calibrations |-> dimensional_calibrations,
     metadata |-> metadata]

\* the accessors of a DataAndMetadata
data_shape(x) == x.data.shape

data_dtype(x) == x.data.dtype

is_valid(x) == is_shape_and_dtype_valid(x.has_data, data_shape(x), data_dtype(x))

is_data_valid(x) == is_valid(x)

is_data_1d(x) == is_shape_and_dtype_1d(data_shape(x), data_dtype(x))

is_data_2d(x) == is_shape_and_dtype_2d(data_shape(x), data_dtype(x))

\* the rank of a payload, a colour channel axis not counted
Rank(a) == Len(dimensional_shape_from_shape_and_dtype(a.shape, a.dtype))

NoValue == new_data_and_metadata(NoData, Uncalibrated, << >>, {})

\* outcomes of a catalog entry; calculated says that calculate_data has been
\* executed by the time the entry is left, view that the payload of the result
\* shares the storage of the input's payload
Value(v) == [kind |-> "value", exc |-> "", val |-> v, calculated |-> FALSE, view |-> FALSE]

None == [kind |-> "none", exc |-> "", val |-> NoValue, calculated |-> FALSE, view |-> FALSE]

Raise(e) == [kind |-> "raise", exc |-> e, val |-> NoValue, calculated |-> FALSE, view |-> FALSE]

\* the return statement of a catalog entry:
\* return new_data_and_metadata(calculate_data(), ...): the argument
\* calculate_data() is called before the constructor is
Return(d, intensity_calibration, dimensional_calibrations, metadata) ==
    IF d.kind = "raise" THEN [Raise(d.exc) EXCEPT !.calculated = TRUE]
    ELSE [Value(new_data_and_metadata(d, intensity_calibration, dimensional_calibrations, metadata))
             EXCEPT !.calculated = TRUE, !.view = d.view]

\* ------------------------------------------------------------ function_fft
\* the places scipy.fftpack.fftshift rotates each axis forward by, and
\* scipy.fftpack.ifftshift rotates each axis back by
HalfExtents(shape) == [i \in 1 .. Len(shape) |-> shape[i] \div 2]

\* no rotation of any axis
NoShift(shape) == [i \in 1 .. Len(shape) |-> 0]

\* the payload shift(transform(unshift(data)) * scaling). Element idx is tagged
\* by the position of the transform's output it holds, after_shift being the
\* fftshift applied to that output; by before_shift, the ifftshift applied to
\* the transform's input; and by the square of scaling, a rational
TransformedArray(shape, after_shift, before_shift, scaling_squared) ==
    NDArray(shape, "complex128",
            [idx \in Indices(shape) |->
                [i \in 1 .. Len(shape) |-> (idx[i] + shape[i] - after_shift[i]) % shape[i]]
                    \o before_shift \o scaling_squared])

\* fftshift(fft(data) * scaling), fftshift(fft2(data_copy) * scaling)
function_fft_calculate_data(x) ==
    IF ~x.has_data \/ ~is_data_valid(x) THEN NoData
    ELSE IF is_data_1d(x)
         THEN Data(TransformedArray(data_shape(x), HalfExtents(data_shape(x)), NoShift(data_shape(x)),
                                    Rat(1, data_shape(x)[1])))
    ELSE IF is_data_2d(x)
         THEN Data(TransformedArray(data_shape(x), HalfExtents(data_shape(x)), NoShift(data_shape(x)),
                                    Rat(1, data_shape(x)[2] * data_shape(x)[1])))
    ELSE DataRaise("NotImplementedError")

\* the forward rule with the axis length left out of the new scale
function_fft_dimensional_calibrations_no_length(x) ==
    LET src == x.dimensional_calibrations
        shape == data_shape(x)
    IN  [i \in 1 .. Min(Len(src), Len(shape)) |->
            Calibration(RatDiv(Rat(-1, 2), src[i].scale),
                        RatDiv(RatInt(1), src[i].scale),
                        "1/" \o src[i].units)]

\* zip(src_dimensional_calibrations, data_shape) stops at the shorter one
function_fft_dimensional_calibrations(x) ==
    LET src == x.dimensional_calibrations
        shape == data_shape(x)
    IN  [i \in 1 .. Min(Len(src), Len(shape)) |->
            Calibration(RatDiv(Rat(-1, 2), src[i].scale),
                        RatDiv(RatInt(1), RatMul(src[i].scale, RatInt(shape[i]))),
                        "1/" \o src[i].units)]

function_fft(x) ==
    IF ~is_valid(x) THEN None
    ELSE IF Len(x.dimensional_calibrations)
              # Len(dimensional_shape_from_shape_and_dtype(data_shape(x), data_dtype(x)))
         THEN Raise("AssertionError")
    ELSE Return(function_fft_calculate_data(x), Uncalibrated,
                function_fft_dimensional_calibrations(x), {})

\* ----------------------------------------------------------- function_ifft
\* the inverse transform returning no payload for the ranks it does not handle
function_ifft_calculate_data_none_for_other_ranks(x) ==
    IF ~x.has_data \/ ~is_data_valid(x) THEN NoData
    ELSE IF is_data_1d(x)
         THEN Data(TransformedArray(data_shape(x), HalfExtents(data_shape(x)), NoShift(data_shape(x)),
                                    Rat(data_shape(x)[1], 1)))
    ELSE IF is_data_2d(x)
         THEN Data(TransformedArray(data_shape(x), NoShift(data_shape(x)), HalfExtents(data_shape(x)),
                                    Rat(data_shape(x)[2] * data_shape(x)[1], 1)))
    ELSE NoData

\* fftshift(ifft(data) * scaling), ifft2(ifftshift(data_copy) * scaling)
function_ifft_calculate_data(x) ==
    IF ~x.has_data \/ ~is_data_valid(x) THEN NoData
    ELSE IF is_data_1d(x)
         THEN Data(TransformedArray(data_shape(x), HalfExtents(data_shape(x)), NoShift(data_shape(x)),
                                    Rat(data_shape(x)[1], 1)))
    ELSE IF is_data_2d(x)
         THEN Data(TransformedArray(data_shape(x), NoShift(data_shape(x)), HalfExtents(data_shape(x)),
                                    Rat(data_shape(x)[2] * data_shape(x)[1], 1)))
    ELSE DataRaise("NotImplementedError")

\* the unit rule that never strips the prefix
remove_one_slash_always_prepends(s) == "1/" \o s

remove_one_slash(s) ==
    IF Len(s) >= 2 /\ SubSeq(s, 1, 2) = "1/" THEN SubSeq(s, 3, Len(s)) ELSE "1/" \o s

function_ifft_dimensional_calibrations(x) ==
    LET src == x.dimensional_calibrations
        shape == data_shape(x)
    IN  [i \in 1 .. Min(Len(src), Len(shape)) |->
            Calibration(RatInt(0),
                        RatDiv(RatInt(1), RatMul(src[i].scale, RatInt(shape[i]))),
                        remove_one_slash(src[i].units))]

function_ifft(x) ==
    IF ~is_valid(x) THEN None
    ELSE IF Len(x.dimensional_calibrations)
              # Len(dimensional_shape_from_shape_and_dtype(data_shape(x), data_dtype(x)))
         THEN Raise("AssertionError")
    ELSE Return(function_ifft_calculate_data(x), Uncalibrated,
                function_ifft_dimensional_calibrations(x), {})

\* ----------------------------------------------------------- array slicing
\* the positions [lo, hi) that Python's a[start:stop] keeps of an axis of
\* length n, for start, stop >= 0
SliceBounds(start, stop, n) ==
    LET lo == Min(start, n)
        hi == Max(lo, Min(stop, n))
    IN  << lo, hi >>

\* a[r1[1]:r1[2], r2[1]:r2[2], ...].copy(): ranges slices the leading axes,
\* the other axes are kept whole
SliceArray(a, ranges) ==
    LET keep == [i \in 1 .. Len(a.shape) |->
                    IF i <= Len(ranges) THEN SliceBounds(ranges[i][1], ranges[i][2], a.shape[i])
                    ELSE << 0, a.shape[i] >>]
        shape == [i \in 1 .. Len(a.shape) |-> keep[i][2] - keep[i][1]]
    IN  NDArray(shape, a.dtype,
                [idx \in Indices(shape) |-> a.elems[[i \in 1 .. Len(idx) |-> idx[i] + keep[i][1]]]])

\* ----------------------------------------------------------- function_crop
\* bounds = ((top, left), (height, width)), fractions of the axis lengths
function_crop_bounds_int(x, bounds) ==
    << << ToInt(RatMul(RatInt(data_shape(x)[1]), bounds[1][1])),
          ToInt(RatMul(RatInt(data_shape(x)[2]), bounds[1][2])) >>,
       << ToInt(RatMul(RatInt(data_shape(x)[1]), bounds[2][1])),
          ToInt(RatMul(RatInt(data_shape(x)[2]), bounds[2][2])) >> >>

function_crop_calculate_data(x, bounds) ==
    IF ~is_data_valid(x) THEN NoData
    ELSE LET bounds_int == function_crop_bounds_int(x, bounds)
         IN  Data(SliceArray(x.data,
                 << << bounds_int[1][1], bounds_int[1][1] + bounds_int[2][1] >>,
                    << bounds_int[1][2], bounds_int[1][2] + bounds_int[2][2] >> >>))

\* the offset shifted by the size of the crop instead of its origin
function_crop_calibration_by_size(x, bounds, index) ==
    LET c == x.dimensional_calibrations[index]
    IN  Calibration(
            RatAdd(c.offset, RatMul(RatMul(RatInt(data_shape(x)[index]), bounds[2][index]), c.scale)),
            c.scale, c.units)

\* the offset shifted by the truncated pixel origin instead of the fractional one
function_crop_calibration_by_pixel(x, bounds, index) ==
    LET c == x.dimensional_calibrations[index]
    IN  Calibration(
            RatAdd(c.offset,
                   RatMul(RatInt(ToInt(RatMul(RatInt(data_shape(x)[index]), bounds[1][index]))), c.scale)),
            c.scale, c.units)

\* the body of the loop over enumerate(dimensional_calibrations); index is 1-based
function_crop_calibration(x, bounds, index) ==
    LET c == x.dimensional_calibrations[index]
    IN  Calibration(
            RatAdd(c.offset, RatMul(RatMul(RatInt(data_shape(x)[index]), bounds[1][index]), c.scale)),
            c.scale, c.units)

function_crop(x, bounds) ==
    IF ~is_valid(x) THEN None
    \* data_shape[1] in bounds_int
    ELSE IF Len(data_shape(x)) < 2 THEN Raise("IndexError")
    \* bounds[0][index] and data_shape[index] in the loop
    ELSE IF Len(x.dimensional_calibrations) > Min(2, Len(data_shape(x))) THEN Raise("IndexError")
    ELSE Return(function_crop_calculate_data(x, bounds), x.intensity_calibration,
                [index \in 1 .. Len(x.dimensional_calibrations) |-> function_crop_calibration(x, bounds, index)],
                x.metadata)

\* -------------------------------------------------- function_crop_interval
function_crop_interval_interval_int(x, interval) ==
    << ToInt(RatMul(RatInt(data_shape(x)[1]), interval[1])),
       ToInt(RatMul(RatInt(data_shape(x)[1]), interval[2])) >>

function_crop_interval_calculate_data(x, interval) ==
    IF ~is_data_valid(x) THEN NoData
    ELSE Data(SliceArray(x.data, << function_crop_interval_interval_int(x, interval) >>))

function_crop_interval_calibration(x, interval) ==
    LET c == x.dimensional_calibrations[1]
        interval_int == function_crop_interval_interval_int(x, interval)
    IN  Calibration(
            RatAdd(c.offset, RatMul(RatMul(RatInt(data_shape(x)[1]), RatInt(interval_int[1])), c.scale)),
            c.scale, c.units)

function_crop_interval(x, interval) ==
    IF ~is_valid(x) THEN None
    \* dimensional_calibrations[0]
    ELSE IF Len(x.dimensional_calibrations) < 1 THEN Raise("IndexError")
    ELSE Return(function_crop_interval_calculate_data(x, interval), x.intensity_calibration,
                << function_crop_interval_calibration(x, interval) >>, x.metadata)

\* ------------------------------------------------------------ function_sum
\* the axis argument: None, an integer, or a sequence of integers
AxisNone == [kind |-> "none", index |-> 0, indices |-> << >>]

AxisIndex(i) == [kind |-> "index", index |-> i, indices |-> << >>]

AxisSequence(s) == [kind |-> "sequence", index |-> 0, indices |-> s]

\* the elements of a sequence
Range(s) == { s[i] : i \in 1 .. Len(s) }

\* the elements of s whose 0-based position (enumerate's index) is not in
\* drop, in order
WithoutIndices(s, drop) ==
    LET F[n \in 0 .. Len(s)] ==
            IF n = 0 THEN << >>
            ELSE IF (n - 1) \notin drop THEN Append(F[n - 1], s[n]) ELSE F[n - 1]
    IN  F[Len(s)]

\* numpy.sum(data, axis) for a numeric payload
numpy_sum(a, axis) ==
    LET rank == Len(a.shape)
        given == IF axis.kind = "index" THEN << axis.index >> ELSE axis.indices
        InRange(i) == -rank <= i /\ i < rank
        Normal(i) == IF i < 0 THEN i + rank ELSE i
        axes == { Normal(i) : i \in Range(given) }
    IN  IF axis.kind = "none" THEN Data(KernelArray(<< >>, a.dtype))
        ELSE IF \E i \in Range(given) : ~InRange(i) THEN DataRaise("AxisError")
        ELSE IF Cardinality(axes) # Len(given) THEN DataRaise("ValueError")
        ELSE Data(KernelArray(WithoutIndices(a.shape, axes), a.dtype))

function_sum_calculate_data(x, axis) ==
    IF ~is_data_valid(x) THEN NoData
    ELSE IF is_shape_and_dtype_rgb_type(data_shape(x), data_dtype(x))
         THEN \* an image of data.shape[1:], filled per channel by rgb_image[:, c] = ...
              IF Len(data_shape(x)) = 3 THEN Data(KernelArray(Tail(data_shape(x)), "uint8"))
              ELSE IF Len(data_shape(x)) = 2 THEN DataRaise("IndexError")
              ELSE DataRaise("ValueError")
    ELSE numpy_sum(x.data, axis)

\* the single-index branch with a negative index counted from the last axis
function_sum_dimensional_calibrations_normalized(x, axis) ==
    LET src == x.dimensional_calibrations
    IN  IF axis.kind = "index"
        THEN WithoutIndices(src, { IF axis.index < 0 THEN axis.index + Len(src) ELSE axis.index })
        ELSE IF axis.kind = "sequence"
        THEN WithoutIndices(src, Range(axis.indices))
        ELSE << >>

function_sum_dimensional_calibrations(x, axis) ==
    LET src == x.dimensional_calibrations
    IN  IF axis.kind = "index"
        THEN WithoutIndices(src, { axis.index })
        ELSE IF axis.kind = "sequence"
        THEN WithoutIndices(src, Range(axis.indices))
        ELSE << >>

function_sum(x, axis) ==
    IF ~is_valid(x) THEN None
    ELSE Return(function_sum_calculate_data(x, axis), x.intensity_calibration,
                function_sum_dimensional_calibrations(x, axis), x.metadata)

\* -------------------------------------------------------- function_reshape
RECURSIVE Ravel(_, _)
\* the position of the index tuple idx in row-major order
Ravel(idx, shape) ==
    IF idx = << >> THEN 0
    ELSE Ravel(SubSeq(idx, 1, Len(idx) - 1), SubSeq(shape, 1, Len(shape) - 1)) * shape[Len(shape)]
            + idx[Len(idx)]

RECURSIVE Unravel(_, _)
\* the index tuple at position n in row-major order
Unravel(n, shape) ==
    IF shape = << >> THEN << >>
    ELSE Append(Unravel(n \div shape[Len(shape)], SubSeq(shape, 1, Len(shape) - 1)), n % shape[Len(shape)])

\* numpy.reshape(data, shape) for a payload with at least one element and a
\* target of extents >= 1 or -1
numpy_reshape(a, shape) ==
    LET total == Product(a.shape)
        wild == { i \in 1 .. Len(shape) : shape[i] = -1 }
        known == Product([i \in 1 .. Len(shape) |-> IF i \in wild THEN 1 ELSE shape[i]])
        resolved == [i \in 1 .. Len(shape) |-> IF i \in wild THEN total \div known ELSE shape[i]]
    IN  IF Cardinality(wild) > 1 THEN DataRaise("ValueError")
        ELSE IF wild = {} /\ known # total THEN DataRaise("ValueError")
        ELSE IF wild # {} /\ total % known # 0 THEN DataRaise("ValueError")
        \* a contiguous array is reshaped without copying
        ELSE DataView(NDArray(resolved, a.dtype,
                 [idx \in Indices(resolved) |-> a.elems[Unravel(Ravel(idx, resolved), a.shape)]]))

function_reshape_calculate_data(x, shape) ==
    IF ~is_data_valid(x) THEN NoData ELSE numpy_reshape(x.data, shape)

\* the branch taken for the new calibrations
function_reshape_case(x, shape) ==
    IF Len(data_shape(x)) + 1 = Len(shape) /\ -1 \in Range(shape) THEN "more"
    ELSE IF Len(data_shape(x)) - 1 = Len(shape) /\ 1 \in Range(data_shape(x)) THEN "fewer"
    ELSE "other"

\* special case going to one more dimension: the number of source
\* calibrations the loop consumes
function_reshape_consumed(shape) == Cardinality({ i \in 1 .. Len(shape) : shape[i] # -1 })

function_reshape_more(x, shape) ==
    [i \in 1 .. Len(shape) |->
        IF shape[i] = -1 THEN Uncalibrated
        ELSE x.dimensional_calibrations[Cardinality({ j \in 1 .. i : shape[j] # -1 })]]

\* the one-fewer-dimension case dropping only the first axis of size 1
function_reshape_fewer_first_only(x, shape) ==
    LET n == Min(Len(data_shape(x)), Len(x.dimensional_calibrations))
        first == CHOOSE i \in 1 .. Len(data_shape(x)) :
                    /\ data_shape(x)[i] = 1
                    /\ \A j \in 1 .. i - 1 : data_shape(x)[j] # 1
    IN  WithoutIndices(SubSeq(x.dimensional_calibrations, 1, n), { first - 1 })

\* special case going to one fewer dimension: zip(data_shape, dimensional_calibrations)
function_reshape_fewer(x, shape) ==
    LET n == Min(Len(data_shape(x)), Len(x.dimensional_calibrations))
    IN  WithoutIndices(SubSeq(x.dimensional_calibrations, 1, n),
                       { index \in 0 .. n - 1 : data_shape(x)[index + 1] = 1 })

function_reshape_other(x, shape) == [i \in 1 .. Len(shape) |-> Uncalibrated]

function_reshape(x, shape) ==
    IF ~is_valid(x) THEN None
    ELSE IF function_reshape_case(x, shape) = "more"
         THEN \* dimensional_calibrations[index]
              IF function_reshape_consumed(shape) > Len(x.dimensional_calibrations)
              THEN Raise("IndexError")
              ELSE Return(function_reshape_calculate_data(x, shape), x.intensity_calibration,
                          function_reshape_more(x, shape), x.metadata)
    ELSE IF function_reshape_case(x, shape) = "fewer"
         THEN Return(function_reshape_calculate_data(x, shape), x.intensity_calibration,
                     function_reshape_fewer(x, shape), x.metadata)
    ELSE Return(function_reshape_calculate_data(x, shape), x.intensity_calibration,
                function_reshape_other(x, shape), x.metadata)

\* -------------------------------------------------------- spatial filters
\* the tag of an element the kernel computed from colour channel c alone,
\* rgb[..., c] = filter(data[..., c])
ChannelComputed(c) == << -1, c >>

\* the per-channel branches of a filter: the colour channels come out of the
\* kernel, the alpha channel (index 3) is copied from the source
FilterChannels(a, channels) ==
    LET shape == SubSeq(a.shape, 1, Len(a.shape) - 1) \o << channels >>
    IN  NDArray(shape, "uint8",
                [idx \in Indices(shape) |->
                    IF idx[Len(idx)] = 3 THEN a.elems[idx] ELSE ChannelComputed(idx[Len(idx)])])

\* calculate_data of function_sobel, function_laplace, function_median_filter
\* and function_uniform_filter
filter_calculate_data(x) ==
    IF ~x.has_data \/ ~is_data_valid(x) THEN NoData
    ELSE IF is_shape_and_dtype_rgb(data_shape(x), data_dtype(x)) THEN Data(FilterChannels(x.data, 3))
    ELSE IF is_shape_and_dtype_rgba(data_shape(x), data_dtype(x)) THEN Data(FilterChannels(x.data, 4))
    ELSE Data(KernelArray(data_shape(x), data_dtype(x)))

function_sobel(x) ==
    Return(filter_calculate_data(x), x.intensity_calibration, x.dimensional_calibrations, x.metadata)

function_laplace(x) ==
    Return(filter_calculate_data(x), x.intensity_calibration, x.dimensional_calibrations, x.metadata)

\* scipy.ndimage.gaussian_filter over the whole array, colour images included
function_gaussian_blur_calculate_data(x, sigma) ==
    IF ~x.has_data \/ ~is_data_valid(x) THEN NoData
    ELSE Data(KernelArray(data_shape(x), data_dtype(x)))

function_gaussian_blur(x, sigma) ==
    Return(function_gaussian_blur_calculate_data(x, sigma), x.intensity_calibration,
           x.dimensional_calibrations, x.metadata)

function_median_filter(x, size) ==
    Return(filter_calculate_data(x), x.intensity_calibration, x.dimensional_calibrations, x.metadata)

function_uniform_filter(x, size) ==
    Return(filter_calculate_data(x), x.intensity_calibration, x.dimensional_calibrations, x.metadata)

\* --------------------------------------------------- function_autocorrelate
\* numpy.fft.irfft2(numpy.fft.rfft2(a) * ...): the last axis of length n comes
\* back with length 2 * (n // 2 + 1 - 1)
function_autocorrelate_calculate_data(x) ==
    IF ~x.has_data \/ ~is_data_valid(x) THEN NoData
    ELSE IF is_data_2d(x)
         THEN LET shape == data_shape(x)
                  n == shape[Len(shape)]
              IN  IF 2 * (n \div 2) = 0 THEN DataRaise("ValueError")
                  ELSE Data(KernelArray([shape EXCEPT ![Len(shape)] = 2 * (n \div 2)], "float64"))
    ELSE NoData

function_autocorrelate(x) ==
    \* [Calibration.Calibration() for _ in data_and_metadata.data_shape]
    IF ~x.has_data THEN Raise("TypeError")
    ELSE Return(function_autocorrelate_calculate_data(x), Uncalibrated,
                [i \in 1 .. Len(data_shape(x)) |-> Uncalibrated], {})

\* -------------------------------------------------- function_transpose_flip
\* numpy.transpose(data, [1, 0]) and numpy.transpose(data, [1, 0, 2])
Transposed(a) ==
    LET shape == [a.shape EXCEPT ![1] = a.shape[2], ![2] = a.shape[1]]
    IN  NDArray(shape, a.dtype,
                [idx \in Indices(shape) |-> a.elems[[idx EXCEPT ![1] = idx[2], ![2] = idx[1]]]])

\* numpy.fliplr (axis = 2) and numpy.flipud (axis = 1)
Flipped(a, axis) ==
    NDArray(a.shape, a.dtype,
            [idx \in Indices(a.shape) |-> a.elems[[idx EXCEPT ![axis] = a.shape[axis] - 1 - idx[axis]]]])

function_transpose_flip_calculate_data(x, transpose, flip_v, flip_h) ==
    IF ~x.has_data \/ ~is_data_valid(x) THEN NoData
    ELSE IF transpose /\ is_shape_and_dtype_rgb_type(data_shape(x), data_dtype(x)) /\ Len(data_shape(x)) # 3
         THEN DataRaise("ValueError")
    ELSE LET two == Len(data_shape(x)) = 2
             transposed == transpose /\ (is_shape_and_dtype_rgb_type(data_shape(x), data_dtype(x)) \/ two)
             t == IF transposed THEN Transposed(x.data) ELSE x.data
             h == IF flip_h /\ two THEN Flipped(t, 2) ELSE t
             v == IF flip_v /\ two THEN Flipped(h, 1) ELSE h
             \* id(data) == data_id: no numpy call has rebound data; each of
             \* numpy.transpose, fliplr and flipud returns a new view object
             same_id == ~transposed /\ ~(flip_h /\ two) /\ ~(flip_v /\ two)
         IN  IF same_id THEN Data(v) ELSE DataView(v)

\* list(reversed(s))
Reversed(s) == [i \in 1 .. Len(s) |-> s[Len(s) + 1 - i]]

function_transpose_flip(x, transpose, flip_v, flip_h) ==
    IF ~is_valid(x) THEN None
    ELSE Return(function_transpose_flip_calculate_data(x, transpose, flip_v, flip_h),
                x.intensity_calibration,
                IF transpose THEN Reversed(x.dimensional_calibrations) ELSE x.dimensional_calibrations,
                x.metadata)

\* ------------------------------------------------------ function_slice_sum
function_slice_sum_calculate_data(x, slice_center, slice_width) ==
    IF ~is_data_valid(x) THEN NoData
    \* data[slice_start:slice_end, :]
    ELSE IF Len(data_shape(x)) < 2 THEN DataRaise("IndexError")
    ELSE Data(KernelArray(Tail(data_shape(x)), data_dtype(x)))

function_slice_sum(x, slice_center, slice_width) ==
    IF ~is_valid(x) THEN None
    ELSE Return(function_slice_sum_calculate_data(x, slice_center, slice_width),
                x.intensity_calibration, Tail(x.dimensional_calibrations), x.metadata)

\* ----------------------------------------------------------- function_pick
\* position = (y, x), fractions of the two trailing axes
function_pick_calculate_data(x, position) ==
    IF ~is_data_valid(x) THEN NoData
    ELSE IF Len(data_shape(x)) # 3 THEN NoData
    ELSE LET y == ToInt(RatMul(position[1], RatInt(data_shape(x)[2])))
             xx == ToInt(RatMul(position[2], RatInt(data_shape(x)[3])))
             n == data_shape(x)[1]
         IN  IF y >= 0 /\ y < data_shape(x)[2] /\ xx >= 0 /\ xx < data_shape(x)[3]
             THEN Data(NDArray(<< n >>, data_dtype(x),
                               [idx \in Indices(<< n >>) |-> x.data.elems[<< idx[1], y, xx >>]]))
             \* numpy.zeros((data_shape[:-2], ), dtype): a tuple inside the shape tuple
             ELSE DataRaise("TypeError")

function_pick(x, position) ==
    IF ~is_valid(x) THEN None
    ELSE IF Len(data_shape(x)) # 3 THEN None
    ELSE Return(function_pick_calculate_data(x, position), x.intensity_calibration,
                SubSeq(x.dimensional_calibrations, 1, Len(x.dimensional_calibrations) - 2),
                x.metadata)

\* ---------------------------------------------------- function_resample_2d
function_resample_2d_calculate_data(x, shape) ==
    IF ~is_data_valid(x) THEN NoData
    ELSE IF ~is_data_2d(x) THEN NoData
    ELSE IF data_shape(x)[1] = shape[1] /\ data_shape(x)[2] = shape[2] THEN Data(x.data)
    ELSE Data(KernelArray([data_shape(x) EXCEPT ![1] = shape[1], ![2] = shape[2]], data_dtype(x)))

function_resample_2d(x, shape) ==
    IF ~is_valid(x) THEN None
    ELSE IF ~is_shape_and_dtype_2d(data_shape(x), data_dtype(x)) THEN None
    \* ... / dimensions[i] for i in range(len(dimensional_calibrations))
    ELSE IF \E i \in 1 .. Min(2, Len(x.dimensional_calibrations)) : shape[i] = 0
         THEN Raise("ZeroDivisionError")
    ELSE IF Len(x.dimensional_calibrations) > 2 THEN Raise("IndexError")
    ELSE Return(function_resample_2d_calculate_data(x, shape), x.intensity_calibration,
                [i \in 1 .. Len(x.dimensional_calibrations) |->
                    Calibration(x.dimensional_calibrations[i].offset,
                                RatDiv(RatMul(x.dimensional_calibrations[i].scale, RatInt(data_shape(x)[i])),
                                       RatInt(shape[i])),
                                x.dimensional_calibrations[i].units)],
                x.metadata)

\* ------------------------------------------------------ function_histogram
function_histogram_calculate_data(x, bins) ==
    IF ~is_data_valid(x) THEN NoData
    ELSE IF bins < 1 THEN DataRaise("ValueError")
    ELSE Data(KernelArray(<< bins >>, "int64"))

function_histogram(x, bins) ==
    IF ~is_valid(x) THEN None
    ELSE Return(function_histogram_calculate_data(x, bins), x.intensity_calibration,
                << Uncalibrated >>, x.metadata)

\* ---------------------------------------------------- function_concatenate
\* the dtype numpy gives an array built from arrays of the given dtypes
numpy_result_type(dtypes) ==
    IF "complex128" \in dtypes THEN "complex128"
    ELSE IF "float64" \in dtypes THEN "float64"
    ELSE IF "int64" \in dtypes THEN "int64"
    ELSE "uint8"

RECURSIVE ExtentBefore(_, _, _)
\* the extent along axis i (1-based) of the arrays in front of the k-th
ExtentBefore(arrays, i, k) ==
    IF k <= 1 THEN 0 ELSE ExtentBefore(arrays, i, k - 1) + arrays[k - 1].shape[i]

\* numpy.concatenate(arrays, axis) for a non-empty list
numpy_concatenate(arrays, axis) ==
    LET rank == Len(arrays[1].shape)
        i == (IF axis < 0 THEN axis + rank ELSE axis) + 1
        n == Len(arrays)
    IN  IF rank = 0 THEN DataRaise("ValueError")
        ELSE IF axis < -rank \/ axis >= rank THEN DataRaise("AxisError")
        ELSE IF \E k \in 1 .. n : Len(arrays[k].shape) # rank THEN DataRaise("ValueError")
        ELSE IF \E k \in 1 .. n : \E j \in 1 .. rank : j # i /\ arrays[k].shape[j] # arrays[1].shape[j]
             THEN DataRaise("ValueError")
        ELSE LET shape == [arrays[1].shape EXCEPT ![i] = ExtentBefore(arrays, i, n + 1)]
                 item(p) == CHOOSE k \in 1 .. n :
                               /\ ExtentBefore(arrays, i, k) <= p
                               /\ p < ExtentBefore(arrays, i, k + 1)
             IN  Data(NDArray(shape, numpy_result_type({ arrays[k].dtype : k \in 1 .. n }),
                     [idx \in Indices(shape) |->
                         LET k == item(idx[i])
                         IN  arrays[k].elems[[idx EXCEPT ![i] = idx[i] - ExtentBefore(arrays, i, k)]]]))

\* s[1:] of a tuple
Rest(s) == IF s = << >> THEN << >> ELSE Tail(s)

function_concatenate_calculate_data(list, axis) ==
    LET partial_shape == data_shape(list[1])
    IN  IF \E k \in 1 .. Len(list) : ~list[k].has_data THEN NoData
        ELSE IF \A k \in 1 .. Len(list) : Rest(data_shape(list[k])) = Rest(partial_shape)
             THEN numpy_concatenate([k \in 1 .. Len(list) |-> list[k].data], axis)
        ELSE NoData

\* any([d.data_shape != partial_shape[1:] is None for d in list]): Python chains
\* the two comparisons, a != b is None means (a != b) and (b is None), and the
\* slice partial_shape[1:] is never None
function_concatenate_shape_check(list) ==
    LET partial_shape == data_shape(list[1])
    IN  \E k \in 1 .. Len(list) : data_shape(list[k]) # Rest(partial_shape) /\ FALSE

\* the calibration of the concatenation axis is kept, index counts from 0
function_concatenate_dimensional_calibrations(list, axis) ==
    LET first == list[1].dimensional_calibrations
    IN  [i \in 1 .. Len(first) |-> IF i - 1 # axis THEN Uncalibrated ELSE first[i]]

function_concatenate(list, axis) ==
    IF Len(list) < 1 THEN None
    ELSE IF \E k \in 1 .. Len(list) : ~list[k].has_data THEN None
    ELSE IF function_concatenate_shape_check(list) THEN None
    ELSE Return(function_concatenate_calculate_data(list, axis),
                list[1].intensity_calibration,
                function_concatenate_dimensional_calibrations(list, axis),
                {})

\* --------------------------------------------------------- function_hstack
\* the stacking with the axis choice left out
function_hstack_always_axis_1(list) ==
    IF Len(list) < 1 THEN None
    ELSE IF ~list[1].has_data THEN Raise("TypeError")
    ELSE function_concatenate(list, 1)

\* len(partial_shape) of an input without payload is len(None)
function_hstack(list) ==
    IF Len(list) < 1 THEN None
    ELSE IF ~list[1].has_data THEN Raise("TypeError")
    ELSE IF Len(data_shape(list[1])) >= 2 THEN function_concatenate(list, 1)
    ELSE function_concatenate(list, 0)

\* --------------------------------------------------------- function_vstack
\* numpy.vstack(arrays): numpy.concatenate of numpy.atleast_2d of each, axis 0
numpy_vstack(arrays) ==
    numpy_concatenate([k \in 1 .. Len(arrays) |->
                          IF Len(arrays[k].shape) = 1
                          THEN NDArray(<< 1 >> \o arrays[k].shape, arrays[k].dtype,
                                       [idx \in Indices(<< 1 >> \o arrays[k].shape) |-> arrays[k].elems[Tail(idx)]])
                          ELSE arrays[k]], 0)

function_vstack_calculate_data(list) ==
    LET partial_shape == data_shape(list[1])
    IN  IF \E k \in 1 .. Len(list) : ~list[k].has_data THEN NoData
        ELSE IF \A k \in 1 .. Len(list) : data_shape(list[k])[1] = partial_shape[1]
             THEN numpy_vstack([k \in 1 .. Len(list) |-> list[k].data])
        ELSE NoData

\* any([d.data_shape[0] != partial_shape[0] is None for d in list]): an extent
\* is never None
function_vstack_shape_check(list) ==
    LET partial_shape == data_shape(list[1])
    IN  \E k \in 1 .. Len(list) : data_shape(list[k])[1] # partial_shape[1] /\ FALSE

function_vstack(list) ==
    IF Len(list) < 1 THEN None
    ELSE IF ~list[1].has_data THEN Raise("TypeError")
    ELSE IF Len(data_shape(list[1])) >= 2 THEN function_concatenate(list, 0)
    ELSE IF \E k \in 1 .. Len(list) : ~list[k].has_data THEN None
    ELSE IF function_vstack_shape_check(list) THEN None
    ELSE IF Len(list[1].dimensional_calibrations) < 1 THEN Raise("IndexError")
    ELSE Return(function_vstack_calculate_data(list),
                list[1].intensity_calibration,
                << Uncalibrated, list[1].dimensional_calibrations[1] >>,
                {})

\* --------------------------------------------------- function_line_profile
\* math.floor(math.sqrt(n)) for an integer n >= 0
FloorSqrt(n) == CHOOSE r \in 0 .. n : r * r <= n /\ n < (r + 1) * (r + 1)

\* vector = (start, end), fractions of the axis lengths
function_line_profile_calculate_data(x, vector, integration_width) ==
    IF ~x.has_data \/ ~is_data_valid(x) THEN NoData
    ELSE LET shape == dimensional_shape_from_shape_and_dtype(data_shape(x), data_dtype(x))
         IN  IF Len(shape) < 2 THEN DataRaise("IndexError")
             ELSE LET start_data == << ToInt(RatMul(RatInt(shape[1]), vector[1][1])),
                                       ToInt(RatMul(RatInt(shape[2]), vector[1][2])) >>
                      end_data == << ToInt(RatMul(RatInt(shape[1]), vector[2][1])),
                                     ToInt(RatMul(RatInt(shape[2]), vector[2][2])) >>
                      squared == (end_data[2] - start_data[2]) * (end_data[2] - start_data[2])
                                   + (end_data[1] - start_data[1]) * (end_data[1] - start_data[1])
                  IN  IF squared > 1
                      THEN IF Len(shape) > 2 THEN DataRaise("RuntimeError")
                           ELSE Data(KernelArray(<< FloorSqrt(squared) >>, "float64"))
                      ELSE Data(KernelArray(<< 1 >>, "float64"))

\* the entry with the validity checks moved in front of the assertion
function_line_profile_validates_first(x, vector, integration_width) ==
    IF ~is_valid(x) THEN None
    ELSE IF Len(x.dimensional_calibrations) # 2 THEN None
    ELSE IF ~(ToInt(integration_width) > 0) THEN Raise("AssertionError")
    ELSE Return(function_line_profile_calculate_data(x, vector, ToInt(integration_width)),
                x.intensity_calibration,
                << Calibration(RatInt(0), x.dimensional_calibrations[2].scale,
                               x.dimensional_calibrations[2].units) >>,
                x.metadata)

function_line_profile(x, vector, integration_width) ==
    IF ~(ToInt(integration_width) > 0) THEN Raise("AssertionError")
    ELSE IF ~is_valid(x) THEN None
    ELSE IF Len(x.dimensional_calibrations) # 2 THEN None
    ELSE Return(function_line_profile_calculate_data(x, vector, ToInt(integration_width)),
                x.intensity_calibration,
                << Calibration(RatInt(0), x.dimensional_calibrations[2].scale,
                               x.dimensional_calibrations[2].units) >>,
                x.metadata)

\* --------------------------------------------------- function_fourier_mask
\* the tag of a mask element that is set to 1
One == << 1 >>

\* the tag of an element of numpy.empty_like that was never assigned
Unassigned == << 0 >>

\* the indices a[start:] selects of an axis of length n, for start >= 0
ForwardSlice(start, n) == [k \in 1 .. Max(0, n - start) |-> start + k - 1]

\* the indices a[start:low:-1] selects of an axis of length n; low is 0, or
\* -1 for a stop of None; a negative start counts from the end
BackwardSlice(start, low, n) ==
    LET wrapped == IF start < 0 THEN start + n ELSE start
        first == IF wrapped < 0 THEN -1 ELSE Min(wrapped, n - 1)
    IN  [k \in 1 .. Max(0, first - low) |-> first - (k - 1)]

\* elems after dest[rows, cols] = mask[from_rows, from_cols], the selections
\* of equal lengths
SliceAssign(elems, rows, cols, mask, from_rows, from_cols) ==
    [idx \in DOMAIN elems |->
        IF \E a \in 1 .. Len(rows), b \in 1 .. Len(cols) : idx = << rows[a], cols[b] >>
        THEN LET a == CHOOSE a \in 1 .. Len(rows) : rows[a] = idx[1]
                 b == CHOOSE b \in 1 .. Len(cols) : cols[b] = idx[2]
             IN  mask.elems[<< from_rows[a], from_cols[b] >>]
        ELSE elems[idx]]

\* fourier_mask_data of a numeric rank-2 payload and a mask of its shape:
\* the four quadrant assignments, then the rows and columns set to 1
fourier_mask_data(shape, mask) ==
    LET y_half == shape[1] \div 2
        x_half == shape[2] \div 2
        y_low == IF shape[1] % 2 = 0 THEN 0 ELSE -1
        x_low == IF shape[2] % 2 = 0 THEN 0 ELSE -1
        lower == ForwardSlice(y_half + 1, shape[1])
        right == ForwardSlice(x_half + 1, shape[2])
        upper == BackwardSlice(y_half - 1, y_low, shape[1])
        left == BackwardSlice(x_half - 1, x_low, shape[2])
        empty == [idx \in Indices(shape) |-> Unassigned]
        first == SliceAssign(empty, lower, right, mask, lower, right)
        second == SliceAssign(first, lower, left, mask, lower, left)
        third == SliceAssign(second, upper, left, mask, lower, right)
        fourth == SliceAssign(third, upper, right, mask, lower, left)
    IN  IF Len(upper) # Len(lower) \/ Len(left) # Len(right) THEN DataRaise("ValueError")
        ELSE IF shape[1] = 0 \/ shape[2] = 0 THEN DataRaise("IndexError")
        ELSE Data(NDArray(shape, mask.dtype,
                 [idx \in Indices(shape) |->
                     IF idx[1] = 0 \/ idx[2] = 0 \/ idx[1] = y_half \/ idx[2] = x_half THEN One
                     ELSE fourth[idx]]))

\* data * fourier_mask_data: an element of the result carries the tag of the
\* mask element it was multiplied by
function_fourier_mask_calculate_data(x, mask) ==
    IF ~x.has_data \/ ~mask.has_data THEN NoData
    ELSE IF is_data_2d(x) /\ is_data_2d(mask)
         THEN LET m == fourier_mask_data(data_shape(x), mask.data)
              IN  IF m.kind = "raise" THEN m
                  ELSE Data(NDArray(data_shape(x), numpy_result_type({data_dtype(x), data_dtype(mask)}),
                                    m.data.elems))
    ELSE NoData

function_fourier_mask(x, mask) ==
    Return(function_fourier_mask_calculate_data(x, mask), x.intensity_calibration,
           x.dimensional_calibrations, x.metadata)

\* ---------------------------------------------------------- function_array
\* array_fn is an element-wise numpy function, numpy.negative or
\* numpy.conjugate; given None it raises TypeError
function_array_calculate_data(array_fn, x) ==
    IF ~x.has_data THEN DataRaise("TypeError")
    ELSE Data(KernelArray(data_shape(x), data_dtype(x)))

function_array(array_fn, x) ==
    Return(function_array_calculate_data(array_fn, x), x.intensity_calibration,
           x.dimensional_calibrations, x.metadata)

\* ------------------------------------------------------------------ arange
\* an argument left out of a call (None)
NoArgument == << >>

\* numpy.linspace(start, stop, num) with the endpoint included: num evenly
\* spaced float64 samples, the first start and (for num > 1) the last stop;
\* a negative num raises ValueError. The samples are exact rationals, the
\* rounding of the floating point division is left out.
numpy_linspace(start, stop, num) ==
    IF num < 0 THEN DataRaise("ValueError")
    ELSE Data(NDArray(<< num >>, "float64",
                      [idx \in Indices(<< num >>) |->
                          IF num = 1 THEN RatInt(start)
                          ELSE RatAdd(RatInt(start),
                                      RatDiv(RatInt(idx[1] * (stop - start)), RatInt(num - 1)))]))

\* arange(start, stop=None, step=None); the value is constructed from the
\* payload alone, so its calibrations and metadata are the defaults
arange(start, stop, step) ==
    LET start_used == IF stop = NoArgument THEN RatInt(0) ELSE start
        stop_used == IF stop = NoArgument THEN start_used ELSE stop
        step_used == IF step = NoArgument THEN RatInt(1) ELSE step
    IN  Return(numpy_linspace(ToInt(start_used), ToInt(stop_used), ToInt(step_used)),
               Uncalibrated, << Uncalibrated >>, {})

\* ------------------------------------------------------------------ inputs
\* calibration of axis i (1-based) in calibration variant v
AxisCalibration(v, i) ==
    IF v = 1 THEN Calibration(RatInt(0), RatInt(1), "nm")
    ELSE Calibration(Rat(2 * i - 3, 2), Rat(1, i + 1), IF i % 2 = 1 THEN "1/um" ELSE "eV")

CalibrationVariants == {1, 2}

RECURSIVE ShapesOfRank(_)
\* the shapes of a given rank with every extent in 1 .. MaxDim
ShapesOfRank(r) ==
    IF r = 0 THEN { << >> }
    ELSE { << n >> \o rest : n \in 1 .. MaxDim, rest \in ShapesOfRank(r - 1) }

\* the shapes of the spec's concrete scenarios
ScenarioShapes == { << 4, 4 >>, << 10, 10 >> }

ValidShapes == UNION { ShapesOfRank(r) : r \in 1 .. MaxRank } \cup ScenarioShapes

\* shapes with an empty axis, which fail the validity predicate
EmptyShapes == { << 0 >>, << 0, 2 >>, << 2, 0 >> }

IntensityCalibration == Calibration(RatInt(1), RatInt(2), "e")

Metadata == {"hardware_source"}

\* a value as constructed from raw literals
InputValue(shape, dtype, v) ==
    new_data_and_metadata(Data(SourceArray(shape, dtype)), IntensityCalibration,
        [i \in 1 .. Len(dimensional_shape_from_shape_and_dtype(shape, dtype)) |-> AxisCalibration(v, i)],
        Metadata)

\* a value whose payload is absent
AbsentInput == new_data_and_metadata(NoData, IntensityCalibration, << >>, Metadata)

NumericInputs ==
    { InputValue(shape, "float64", v) : shape \in ValidShapes \cup EmptyShapes, v \in CalibrationVariants }

\* RGB and RGBA images: uint8 with a trailing colour channel axis of 3 or 4
ColorInputs ==
    { InputValue(<< h, w, c >>, "uint8", v) : h \in 1 .. 2, w \in 1 .. 2, c \in {3, 4}, v \in CalibrationVariants }

Inputs == NumericInputs \cup ColorInputs \cup { AbsentInput }

\* ------------------------------------------------------------ state machine
VARIABLES
    x0,         \* the value the chain of calls started from
    xs,         \* xs[k] is the input of the k-th call
    calls,      \* the calls made so far: calls[k] = [fn, arg]
    result,     \* the outcome of the last call (of the construction, initially)
    remaining   \* how many more calls the chain may make

vars == << x0, xs, calls, result, remaining >>

InitWith(inputs, n) ==
    /\ x0 \in inputs
    /\ xs = << >>
    /\ calls = << >>
    /\ result = Value(x0)
    /\ remaining = n

\* a catalog entry is called on the value the previous call returned
Step(fn, arg, out) ==
    /\ remaining > 0
    /\ result.kind = "value"
    /\ xs' = Append(xs, result.val)
    /\ calls' = Append(calls, [fn |-> fn, arg |-> arg])
    /\ result' = out
    /\ remaining' = remaining - 1
    /\ UNCHANGED x0

\* the outcome of the k-th call
Outcome(k) == IF k < Len(calls) THEN Value(xs[k + 1]) ELSE result

\* the k-th call was to fn
Called(k, fn) == k \in 1 .. Len(calls) /\ calls[k].fn = fn

CallFft == Step("function_fft", << >>, function_fft(result.val))

CallIfft == Step("function_ifft", << >>, function_ifft(result.val))

\* a fractional origin and a fractional size along one axis
AxisBounds ==
    { << Rat(0, 1), Rat(1, 1) >>, << Rat(1, 5), Rat(1, 2) >>, << Rat(1, 2), Rat(1, 2) >>,
      << Rat(1, 3), Rat(1, 3) >>, << Rat(1, 2), Rat(1, 1) >>, << Rat(0, 1), Rat(0, 1) >> }

CallCrop ==
    \E v \in AxisBounds, h \in AxisBounds :
        LET bounds == << << v[1], h[1] >>, << v[2], h[2] >> >>
        IN  Step("function_crop", bounds, function_crop(result.val, bounds))

\* a fractional start and a fractional end, 0 <= start <= end <= 1
Intervals ==
    { << Rat(0, 1), Rat(1, 1) >>, << Rat(1, 5), Rat(1, 2) >>, << Rat(1, 2), Rat(1, 1) >>,
      << Rat(1, 3), Rat(2, 3) >>, << Rat(1, 2), Rat(1, 2) >> }

CallCropInterval ==
    \E interval \in Intervals :
        Step("function_crop_interval", interval, function_crop_interval(result.val, interval))

\* the axis arguments of function_sum
AxisArguments ==
    { AxisNone }
        \cup { AxisIndex(i) : i \in -(MaxRank + 1) .. MaxRank }
        \cup { AxisSequence(s) : s \in { << >>, << 0 >>, << 0, 1 >>, << 1, 2 >>, << 0, -1 >>, << 1, 1 >> } }

CallSum ==
    \E axis \in AxisArguments :
        Step("function_sum", axis, function_sum(result.val, axis))

RECURSIVE TargetsOfRank(_)
\* target shapes of a given rank: every extent in 1 .. MaxDim or the wildcard -1
TargetsOfRank(r) ==
    IF r = 0 THEN { << >> }
    ELSE { << n >> \o rest : n \in {-1} \cup 1 .. MaxDim, rest \in TargetsOfRank(r - 1) }

TargetShapes == UNION { TargetsOfRank(r) : r \in 1 .. MaxRank }

CallReshape ==
    \E shape \in TargetShapes :
        Step("function_reshape", shape, function_reshape(result.val, shape))

CallSobel == Step("function_sobel", << >>, function_sobel(result.val))

CallLaplace == Step("function_laplace", << >>, function_laplace(result.val))

CallGaussianBlur ==
    \E sigma \in { Rat(1, 2), Rat(2, 1) } :
        Step("function_gaussian_blur", sigma, function_gaussian_blur(result.val, sigma))

FilterSizes == {0, 3}

CallMedianFilter ==
    \E size \in FilterSizes :
        Step("function_median_filter", size, function_median_filter(result.val, size))

CallUniformFilter ==
    \E size \in FilterSizes :
        Step("function_uniform_filter", size, function_uniform_filter(result.val, size))

CallAutocorrelate == Step("function_autocorrelate", << >>, function_autocorrelate(result.val))

CallTransposeFlip ==
    \E transpose \in BOOLEAN, flip_v \in BOOLEAN, flip_h \in BOOLEAN :
        Step("function_transpose_flip", << transpose, flip_v, flip_h >>,
             function_transpose_flip(result.val, transpose, flip_v, flip_h))

CallSliceSum ==
    \E slice_center \in 0 .. 1, slice_width \in 1 .. 2 :
        Step("function_slice_sum", << slice_center, slice_width >>,
             function_slice_sum(result.val, slice_center, slice_width))

CallPick ==
    \E position \in { << Rat(0, 1), Rat(0, 1) >>, << Rat(1, 2), Rat(1, 2) >>, << Rat(1, 1), Rat(1, 2) >> } :
        Step("function_pick", position, function_pick(result.val, position))

CallResample2d ==
    \E height \in 0 .. MaxDim, width \in 1 .. MaxDim :
        Step("function_resample_2d", << height, width >>,
             function_resample_2d(result.val, << height, width >>))

CallHistogram ==
    \E bins \in 0 .. 2 :
        Step("function_histogram", bins, function_histogram(result.val, bins))

CallArray ==
    \E array_fn \in {"numpy.negative", "numpy.conjugate"} :
        Step("function_array", array_fn, function_array(array_fn, result.val))

Init == InitWith(Inputs, 1)

Next ==
    \/ CallFft
    \/ CallIfft
    \/ CallCrop
    \/ CallCropInterval
    \/ CallSum
    \/ CallReshape
    \/ CallSobel
    \/ CallLaplace
    \/ CallGaussianBlur
    \/ CallMedianFilter
    \/ CallUniformFilter
    \/ CallAutocorrelate
    \/ CallTransposeFlip
    \/ CallSliceSum
    \/ CallPick
    \/ CallResample2d
    \/ CallHistogram
    \/ CallArray

Spec == Init /\ [][Next]_vars

\* chains of Fourier transforms
InitFourier == InitWith(Inputs, MaxChain)

NextFourier ==
    \/ CallFft
    \/ CallIfft

SpecFourier == InitFourier /\ [][NextFourier]_vars

\* chains of reshapes
InitReshape == InitWith(Inputs, MaxChain)

NextReshape == CallReshape

SpecReshape == InitReshape /\ [][NextReshape]_vars

\* the inputs another member of a list is taken from
Companions == { v \in Inputs : Len(data_shape(v)) <= 2 }

\* the lists an entry taking a list is called with, x the value at hand
Lists(x) == { << >>, << x >>, << x, x, x >> } \cup { << x, c >> : c \in Companions }

ConcatenateAxes == -1 .. 2

CallConcatenate ==
    \E list \in Lists(result.val), axis \in ConcatenateAxes :
        Step("function_concatenate", [list |-> list, axis |-> axis], function_concatenate(list, axis))

CallHstack ==
    \E list \in Lists(result.val) :
        Step("function_hstack", [list |-> list], function_hstack(list))

CallVstack ==
    \E list \in Lists(result.val) :
        Step("function_vstack", [list |-> list], function_vstack(list))

\* the line profiles: vectors across the image, along one row and of no
\* length, widths on both sides of the assertion
Vectors ==
    { << << Rat(0, 1), Rat(0, 1) >>, << Rat(1, 1), Rat(1, 1) >> >>,
      << << Rat(1, 2), Rat(0, 1) >>, << Rat(1, 2), Rat(1, 1) >> >>,
      << << Rat(1, 4), Rat(1, 4) >>, << Rat(1, 4), Rat(1, 4) >> >> }

IntegrationWidths == { Rat(-3, 2), Rat(0, 1), Rat(1, 2), Rat(1, 1), Rat(5, 2) }

CallLineProfile ==
    \E vector \in Vectors, integration_width \in IntegrationWidths :
        Step("function_line_profile", [vector |-> vector, integration_width |-> integration_width],
             function_line_profile(result.val, vector, integration_width))

InitLineProfile == InitWith(Inputs, 1)

NextLineProfile == CallLineProfile

SpecLineProfile == InitLineProfile /\ [][NextLineProfile]_vars

\* the masks a payload is masked with: of the payload's shape, of rank 1 and
\* without payload
Masks(x) ==
    { v \in NumericInputs : data_shape(v) = data_shape(x) \/ data_shape(v) = << 2 >> } \cup { AbsentInput }

CallFourierMask ==
    \E mask \in Masks(result.val) :
        Step("function_fourier_mask", mask, function_fourier_mask(result.val, mask))

InitFourierMask == InitWith(NumericInputs \cup { AbsentInput }, 1)

NextFourierMask == CallFourierMask

SpecFourierMask == InitFourierMask /\ [][NextFourierMask]_vars

\* the generator arange, called with numbers around the extents of the inputs
ArangeNumbers == { RatInt(n) : n \in -1 .. MaxDim } \cup { Rat(5, 2) }

CallArange ==
    \E start \in ArangeNumbers, stop \in ArangeNumbers \cup { NoArgument },
       step \in ArangeNumbers \cup { NoArgument } :
        Step("arange", [start |-> start, stop |-> stop, step |-> step], arange(start, stop, step))

InitArange == InitWith({ AbsentInput }, 1)

NextArange == CallArange

SpecArange == InitArange /\ [][NextArange]_vars

\* the entries taking a list of inputs
InitStack == InitWith(Inputs, 1)

NextStack ==
    \/ CallConcatenate
    \/ CallHstack
    \/ CallVstack

SpecStack == InitStack /\ [][NextStack]_vars

\* ------------------------------------------------------------------ claims
\* a valid value with one dimensional calibration per axis
IsCalibratedInput(v) ==
    is_valid(v) /\ Len(v.dimensional_calibrations) = Rank(v.data)

\* a valid value whose payload is numeric (no colour channel axis)
IsNumericInput(v) ==
    IsCalibratedInput(v) /\ ~is_shape_and_dtype_rgb_type(data_shape(v), data_dtype(v))

\* C3: for a valid rank-1 or rank-2 input with one calibration (offset, scale,
\* units) per axis of length n, function_fft returns per axis the calibration
\* (-0.5/scale, 1/(scale*n), "1/" + units) and the uncalibrated intensity
\* calibration (0, 1, ""); a 4x4 input with both axes (0, 1, "nm") yields
\* (-0.5, 0.25, "1/nm") on both axes.
C3_FftCalibrations ==
    \A k \in 1 .. Len(calls) :
        LET src == xs[k]
            r == Outcome(k)
        IN  (Called(k, "function_fft") /\ IsCalibratedInput(src) /\ Rank(src.data) \in {1, 2}) =>
                /\ r.kind = "value"
                /\ Len(r.val.dimensional_calibrations) = Rank(src.data)
                /\ \A i \in 1 .. Rank(src.data) :
                      LET c == src.dimensional_calibrations[i]
                          n == data_shape(src)[i]
                      IN  r.val.dimensional_calibrations[i] =
                            [offset |-> RatDiv(<< -1, 2 >>, c.scale),
                             scale |-> RatDiv(<< 1, 1 >>, RatMul(c.scale, << n, 1 >>)),
                             units |-> "1/" \o c.units]
                /\ r.val.intensity_calibration = [offset |-> << 0, 1 >>, scale |-> << 1, 1 >>, units |-> ""]
                /\ (/\ data_shape(src) = << 4, 4 >>
                    /\ \A i \in 1 .. 2 : src.dimensional_calibrations[i]
                          = [offset |-> << 0, 1 >>, scale |-> << 1, 1 >>, units |-> "nm"])
                   => \A i \in 1 .. 2 : r.val.dimensional_calibrations[i]
                          = [offset |-> << -1, 2 >>, scale |-> << 1, 4 >>, units |-> "1/nm"]

\* function_fft has returned the calibrations of the 4x4 scenario
C3_Witness ==
    /\ Called(1, "function_fft")
    /\ data_shape(xs[1]) = << 4, 4 >>
    /\ xs[1].dimensional_calibrations[1].units = "nm"
    /\ result.kind = "value"
    /\ result.val.dimensional_calibrations[2] = [offset |-> << -1, 2 >>, scale |-> << 1, 4 >>, units |-> "1/nm"]

Floor(q) == q[1] \div q[2]

\* n * q for an integer n and a rational q
Times(n, q) == RatMul(<< n, 1 >>, q)

\* the payload out is the block of the payload src that starts at the pixel
\* origin and has the pixel size given (cut off at the end of the array)
\* along the two leading axes
IsBlockOf(out, src, origin, size) ==
    /\ Len(out.shape) = Len(src.shape)
    /\ out.dtype = src.dtype
    /\ \A i \in 1 .. Len(src.shape) :
          out.shape[i] = IF i <= 2 THEN Min(origin[i] + size[i], src.shape[i]) - origin[i]
                         ELSE src.shape[i]
    /\ DOMAIN out.elems = Indices(out.shape)
    /\ \A idx \in DOMAIN out.elems :
          out.elems[idx] = src.elems[[i \in 1 .. Len(idx) |-> IF i <= 2 THEN idx[i] + origin[i] ELSE idx[i]]]

\* C5: for a valid 2-D input of shape (h, w) and crop bounds with fractions in
\* [0, 1], function_crop slices the payload to the pixel bounds
\* floor(shape[axis] * fraction) and gives each axis the calibration
\* (offset + shape[axis] * start[axis] * scale, scale, units); shape (10, 10)
\* with axis-0 calibration (0, 1, "nm") and bounds ((0.2, 0.0), (0.5, 1.0))
\* gives shape (5, 10) and axis-0 calibration (2.0, 1.0, "nm").
C5_CropRule ==
    \A k \in 1 .. Len(calls) :
        LET src == xs[k]
            r == Outcome(k)
            bounds == calls[k].arg
            shape == data_shape(src)
        IN  (Called(k, "function_crop") /\ IsCalibratedInput(src) /\ Rank(src.data) = 2) =>
                /\ r.kind = "value"
                /\ r.val.has_data
                /\ IsBlockOf(r.val.data, src.data,
                       << Floor(Times(shape[1], bounds[1][1])), Floor(Times(shape[2], bounds[1][2])) >>,
                       << Floor(Times(shape[1], bounds[2][1])), Floor(Times(shape[2], bounds[2][2])) >>)
                /\ Len(r.val.dimensional_calibrations) = 2
                /\ \A i \in 1 .. 2 :
                      LET c == src.dimensional_calibrations[i]
                      IN  r.val.dimensional_calibrations[i] =
                            [offset |-> RatAdd(c.offset, RatMul(Times(shape[i], bounds[1][i]), c.scale)),
                             scale |-> c.scale,
                             units |-> c.units]
                /\ (/\ shape = << 10, 10 >>
                    /\ src.dimensional_calibrations[1] = [offset |-> << 0, 1 >>, scale |-> << 1, 1 >>, units |-> "nm"]
                    /\ bounds = << << << 1, 5 >>, << 0, 1 >> >>, << << 1, 2 >>, << 1, 1 >> >> >>)
                   => /\ data_shape(r.val) = << 5, 10 >>
                      /\ r.val.dimensional_calibrations[1]
                            = [offset |-> << 2, 1 >>, scale |-> << 1, 1 >>, units |-> "nm"]

\* function_crop has cropped a 3x3 input at a fractional origin that is not
\* a whole number of pixels
C5_Witness ==
    /\ Called(1, "function_crop")
    /\ IsCalibratedInput(xs[1])
    /\ data_shape(xs[1]) = << 3, 3 >>
    /\ calls[1].arg = << << << 1, 2 >>, << 1, 3 >> >>, << << 1, 2 >>, << 1, 3 >> >> >>
    /\ xs[1].dimensional_calibrations[1].units = "nm"
    /\ result.kind = "value"
    /\ data_shape(result.val) = << 1, 1 >>
    /\ result.val.data.elems[<< 0, 0 >>] = << 1, 1 >>
    /\ result.val.dimensional_calibrations[1].offset = << 3, 2 >>

\* C6: for a valid 2-D input x, function_crop with the full-extent bounds
\* (0, 0)-(1, 1) returns the payload, shape, intensity calibration and
\* dimensional calibrations of x.
C6_FullCropIsIdentity ==
    \A k \in 1 .. Len(calls) :
        LET src == xs[k]
            r == Outcome(k)
        IN  (/\ Called(k, "function_crop") /\ IsCalibratedInput(src) /\ Rank(src.data) = 2
             /\ calls[k].arg = << << << 0, 1 >>, << 0, 1 >> >>, << << 1, 1 >>, << 1, 1 >> >> >>) =>
                /\ r.kind = "value"
                /\ r.val.has_data
                /\ r.val.data = src.data
                /\ r.val.intensity_calibration = src.intensity_calibration
                /\ r.val.dimensional_calibrations = src.dimensional_calibrations

\* function_crop has run with the full-extent bounds on a calibrated 2x3 input
C6_Witness ==
    /\ Called(1, "function_crop")
    /\ calls[1].arg = << << << 0, 1 >>, << 0, 1 >> >>, << << 1, 1 >>, << 1, 1 >> >> >>
    /\ data_shape(xs[1]) = << 2, 3 >>
    /\ xs[1].dimensional_calibrations[2].units = "eV"
    /\ result.kind = "value"
    /\ data_shape(result.val) = << 2, 3 >>
    /\ result.val.dimensional_calibrations[2].units = "eV"

\* C7: for a valid input with axis-0 length n and axis-0 calibration (offset,
\* scale, units) and an interval (a, b), 0 <= a <= b <= 1,
\* function_crop_interval returns the axis-0 calibration
\* (offset + n * a * scale, scale, units) and the payload sliced to the
\* pixels [floor(n*a), floor(n*b)).
C7_CropIntervalRule ==
    \A k \in 1 .. Len(calls) :
        LET src == xs[k]
            r == Outcome(k)
            interval == calls[k].arg
            n == data_shape(src)[1]
        IN  (Called(k, "function_crop_interval") /\ IsCalibratedInput(src)) =>
                /\ r.kind = "value"
                /\ r.val.has_data
                /\ data_shape(r.val)[1] = Floor(Times(n, interval[2])) - Floor(Times(n, interval[1]))
                /\ LET c == src.dimensional_calibrations[1]
                   IN  r.val.dimensional_calibrations[1] =
                         [offset |-> RatAdd(c.offset, RatMul(Times(n, interval[1]), c.scale)),
                          scale |-> c.scale,
                          units |-> c.units]

\* C8: function_reshape derives the calibrations of a numeric payload by three
\* cases: (a) target rank = source rank + 1 with exactly one wildcard axis:
\* the non-wildcard axes get the source calibrations in order, the wildcard
\* axis is uncalibrated; (b) target rank = source rank - 1 and some source
\* axis has size 1: the source calibrations without those of the size-1 axes,
\* order kept; (c) any other rank change: every output axis uncalibrated.
C8_ReshapeCases ==
    \A k \in 1 .. Len(calls) :
        LET src == xs[k]
            r == Outcome(k)
            shape == calls[k].arg
            rank == Len(data_shape(src))
            wildcards == { i \in 1 .. Len(shape) : shape[i] = -1 }
            caseA == Len(shape) = rank + 1 /\ Cardinality(wildcards) = 1
            caseB == Len(shape) = rank - 1 /\ \E i \in 1 .. rank : data_shape(src)[i] = 1
            caseC == Len(shape) # rank /\ ~(Len(shape) = rank + 1 /\ wildcards # {}) /\ ~caseB
            out == r.val.dimensional_calibrations
        IN  (Called(k, "function_reshape") /\ IsNumericInput(src) /\ r.kind = "value") =>
                /\ caseA =>
                      /\ Len(out) = Len(shape)
                      /\ \A i \in wildcards : out[i] = [offset |-> << 0, 1 >>, scale |-> << 1, 1 >>, units |-> ""]
                      /\ WithoutIndices(out, { i - 1 : i \in wildcards }) = src.dimensional_calibrations
                /\ caseB =>
                      out = WithoutIndices(src.dimensional_calibrations, { i - 1 : i \in { j \in 1 .. rank : data_shape(src)[j] = 1 } })
                /\ caseC =>
                      /\ Len(out) = Len(shape)
                      /\ \A i \in 1 .. Len(out) : out[i] = [offset |-> << 0, 1 >>, scale |-> << 1, 1 >>, units |-> ""]

\* function_reshape has dropped the calibrations of both size-1 axes of a
\* (1, 1, 3) input reshaped to (1, 3)
C8_Witness ==
    /\ Called(1, "function_reshape")
    /\ IsNumericInput(xs[1])
    /\ data_shape(xs[1]) = << 1, 1, 3 >>
    /\ calls[1].arg = << 1, 3 >>
    /\ xs[1].dimensional_calibrations[3].units = "1/um"
    /\ result.kind = "value"
    /\ data_shape(result.val) = << 1, 3 >>
    /\ result.val.dimensional_calibrations = << xs[1].dimensional_calibrations[3] >>

\* C9: for a valid rank-2 input of shape (h, w), h, w >= 1, with calibrations
\* [c0, c1], function_reshape to (h, w, -1) yields [c0, c1, uncalibrated] and
\* function_reshape of that result back to (h, w) yields exactly [c0, c1].
C9_ReshapeRoundTrip ==
    \A k \in 1 .. Len(calls) - 1 :
        LET src == xs[k]
            shape == data_shape(src)
            mid == Outcome(k)
            r == Outcome(k + 1)
        IN  (/\ Called(k, "function_reshape") /\ Called(k + 1, "function_reshape")
             /\ IsNumericInput(src) /\ Len(shape) = 2
             /\ calls[k].arg = << shape[1], shape[2], -1 >>
             /\ calls[k + 1].arg = shape) =>
                /\ mid.val.dimensional_calibrations
                      = src.dimensional_calibrations \o << [offset |-> << 0, 1 >>, scale |-> << 1, 1 >>, units |-> ""] >>
                /\ r.kind = "value"
                /\ r.val.dimensional_calibrations = src.dimensional_calibrations

\* C10: for a valid input of rank r, function_sum returns: for a single index
\* valid for the payload (negative indices counting from the last axis) the
\* input calibrations without that axis's calibration (r - 1 calibrations);
\* for a sequence of indices the input calibrations without the listed axes;
\* for an absent axis an empty calibration list.
C10_SumCalibrations ==
    \A k \in 1 .. Len(calls) :
        LET src == xs[k]
            r == Outcome(k)
            axis == calls[k].arg
            rank == Len(data_shape(src))
            out == r.val.dimensional_calibrations
        IN  (Called(k, "function_sum") /\ IsNumericInput(src)) =>
                /\ (axis.kind = "index" /\ -rank <= axis.index /\ axis.index < rank) =>
                      /\ r.kind = "value"
                      /\ Len(out) = rank - 1
                      /\ out = WithoutIndices(src.dimensional_calibrations,
                                  { IF axis.index < 0 THEN axis.index + rank ELSE axis.index })
                /\ (axis.kind = "sequence" /\ r.kind = "value") =>
                      out = WithoutIndices(src.dimensional_calibrations,
                                  { IF i < 0 THEN i + rank ELSE i : i \in Range(axis.indices) })
                /\ axis.kind = "none" => (r.kind = "value" /\ out = << >>)

\* the catalog entries whose results keep one calibration per axis
CalibratedEntries ==
    { "function_fft", "function_ifft", "function_crop", "function_crop_interval",
      "function_slice_sum", "function_pick", "function_concatenate", "function_hstack",
      "function_vstack", "function_sum", "function_reshape", "function_resample_2d",
      "function_histogram", "function_line_profile", "function_transpose_flip" }

\* C1: for every one of these catalog entries and every valid input whose
\* dimensional_calibrations length equals its rank, a non-absent result has
\* as many dimensional calibrations as its payload has axes.
C1_CalibrationsMatchRank ==
    \A k \in 1 .. Len(calls) :
        LET src == xs[k]
            r == Outcome(k)
        IN  (/\ calls[k].fn \in CalibratedEntries
             /\ IsCalibratedInput(src)
             /\ r.kind = "value" /\ r.val.has_data) =>
                Len(r.val.dimensional_calibrations) = Rank(r.val.data)

\* C2: every catalog entry given an input whose payload is absent or whose
\* shape and dtype fail the validity predicate returns None and raises no
\* exception.
C2_InvalidInputGivesNone ==
    \A k \in 1 .. Len(calls) :
        ~is_valid(xs[k]) => Outcome(k) = None

\* the entries taking a list of inputs
StackEntries == { "function_concatenate", "function_hstack", "function_vstack" }

\* a non-empty list whose members all have a payload without empty axes, of
\* one rank
IsStackable(list) ==
    /\ Len(list) >= 1
    /\ \A n \in 1 .. Len(list) : list[n].has_data
    /\ Len(data_shape(list[1])) >= 1
    /\ \A n \in 1 .. Len(list) :
          /\ Len(data_shape(list[n])) = Len(data_shape(list[1]))
          /\ \A j \in 1 .. Len(data_shape(list[n])) : data_shape(list[n])[j] >= 1

\* the axis (counted from 1) the k-th call joins its inputs along; 0 when the
\* inputs are stacked along a new axis, -1 when the axis given is out of range
StackAxis(k) ==
    LET rank == Len(data_shape(calls[k].arg.list[1]))
    IN  IF calls[k].fn = "function_concatenate"
        THEN LET axis == calls[k].arg.axis
             IN  IF axis < -rank \/ axis >= rank THEN -1
                 ELSE IF axis < 0 THEN axis + rank + 1 ELSE axis + 1
        ELSE IF calls[k].fn = "function_hstack" THEN (IF rank >= 2 THEN 2 ELSE 1)
        ELSE IF rank >= 2 THEN 1 ELSE 0

\* some member differs from the first on an axis other than axis i
ShapesDisagree(list, i) ==
    \E n \in 1 .. Len(list) : \E j \in 1 .. Len(data_shape(list[1])) :
        j # i /\ data_shape(list[n])[j] # data_shape(list[1])[j]

\* C11: function_concatenate, function_hstack and function_vstack return
\* None, raising nothing, whenever some input's shape differs from the first
\* input's on an axis other than the concatenation axis; a result that is
\* not None is returned only when all inputs agree on every such axis.
C11_MismatchGivesNone ==
    \A k \in 1 .. Len(calls) :
        (/\ calls[k].fn \in StackEntries
         /\ IsStackable(calls[k].arg.list)
         /\ StackAxis(k) >= 0) =>
            /\ ShapesDisagree(calls[k].arg.list, StackAxis(k)) => Outcome(k) = None
            /\ Outcome(k).kind = "value" => ~ShapesDisagree(calls[k].arg.list, StackAxis(k))

\* C12: for every non-empty list of inputs with payloads present and every
\* concatenation axis valid for the first input, the result of
\* function_concatenate has the first input's intensity calibration, the first
\* input's dimensional calibration on the concatenation axis and the
\* uncalibrated calibration on every other axis, whatever the calibrations of
\* the other inputs.
C12_ConcatenateCalibrations ==
    \A k \in 1 .. Len(calls) :
        LET list == calls[k].arg.list
            r == Outcome(k)
            out == r.val.dimensional_calibrations
        IN  (/\ Called(k, "function_concatenate")
             /\ IsStackable(list)
             /\ IsCalibratedInput(list[1])
             /\ StackAxis(k) >= 1
             /\ r.kind = "value") =>
                /\ r.val.intensity_calibration = list[1].intensity_calibration
                /\ Len(out) = Len(list[1].dimensional_calibrations)
                /\ \A i \in 1 .. Len(out) :
                      out[i] = IF i = StackAxis(k) THEN list[1].dimensional_calibrations[i]
                               ELSE Uncalibrated

\* C13: function_hstack(list) is function_concatenate(list, 1) when the first
\* input has rank >= 2 and function_concatenate(list, 0) when it has rank 1;
\* function_vstack(list) is function_concatenate(list, 0) when the first input
\* has rank >= 2, and for rank-1 inputs it returns a rank-2 result with the
\* calibrations [uncalibrated, the first input's axis-0 calibration]; both
\* return None for an empty list.
C13_StackDelegation ==
    \A k \in 1 .. Len(calls) :
        LET list == calls[k].arg.list
            r == Outcome(k)
            rank == Len(data_shape(list[1]))
        IN  /\ (calls[k].fn \in {"function_hstack", "function_vstack"} /\ list = << >>) => r = None
            /\ (Called(k, "function_hstack") /\ list # << >> /\ list[1].has_data) =>
                  /\ rank >= 2 => r = function_concatenate(list, 1)
                  /\ rank = 1 => r = function_concatenate(list, 0)
            /\ (Called(k, "function_vstack") /\ list # << >> /\ list[1].has_data) =>
                  /\ rank >= 2 => r = function_concatenate(list, 0)
                  /\ (/\ rank = 1
                      /\ Len(list[1].dimensional_calibrations) = 1
                      /\ \A n \in 1 .. Len(list) : list[n].has_data /\ Len(data_shape(list[n])) = 1) =>
                        /\ r.kind = "value"
                        /\ r.val.dimensional_calibrations
                              = << Uncalibrated, list[1].dimensional_calibrations[1] >>
                        /\ r.val.has_data <=>
                              \A n \in 1 .. Len(list) : data_shape(list[n]) = data_shape(list[1])
                        /\ r.val.has_data =>
                              data_shape(r.val) = << Len(list) >> \o data_shape(list[1])

\* two rank-2 inputs have been stacked side by side
C13_Witness ==
    /\ Called(1, "function_hstack")
    /\ Len(calls[1].arg.list) = 2
    /\ data_shape(calls[1].arg.list[1]) = << 2, 1 >>
    /\ data_shape(calls[1].arg.list[2]) = << 2, 1 >>
    /\ result.kind = "value"
    /\ result.val.has_data
    /\ data_shape(result.val) = << 2, 2 >>

\* the axes of the source that axis i of payload a was taken from: the
\* positions of an element's source index that change along axis i
AxisSources(a, i) ==
    { j \in 1 .. Len(a.shape) :
        \E idx \in Indices(a.shape), other \in Indices(a.shape) :
            /\ \A m \in 1 .. Len(a.shape) : m # i => idx[m] = other[m]
            /\ a.elems[idx][j] # a.elems[other][j] }

\* C14: for every valid input of any rank, function_transpose_flip gives
\* output axis i the calibration of the source axis that output payload axis i
\* was taken from: the calibrations are reversed exactly when the payload axes
\* are, and the flips leave the order of the calibrations as it is.
C14_TransposeFlipCalibrations ==
    \A k \in 1 .. Len(calls) :
        LET src == xs[k]
            r == Outcome(k)
            out == r.val.dimensional_calibrations
        IN  (Called(k, "function_transpose_flip") /\ IsCalibratedInput(src)) =>
                /\ r.kind = "value"
                /\ r.val.has_data
                /\ Len(out) = Len(src.dimensional_calibrations)
                /\ \A i \in 1 .. Len(out) : \A j \in AxisSources(r.val.data, i) :
                      out[i] = src.dimensional_calibrations[j]
                /\ ~calls[k].arg[1] => out = src.dimensional_calibrations

\* the input whose metadata the k-th call is given: the first member of the
\* list for the entries taking a list
MetadataSource(k) ==
    IF calls[k].fn \in StackEntries THEN calls[k].arg.list[1] ELSE xs[k]

\* C15: every catalog entry other than function_autocorrelate and
\* function_crosscorrelate returns a result whose metadata equals the (first)
\* input's metadata; function_fft, function_ifft, function_concatenate,
\* function_hstack and function_vstack among them.
C15_MetadataCarriedThrough ==
    \A k \in 1 .. Len(calls) :
        (/\ calls[k].fn \notin {"function_autocorrelate", "function_crosscorrelate"}
         /\ Outcome(k).kind = "value") =>
            Outcome(k).val.metadata = MetadataSource(k).metadata

\* C16: function_fft and function_ifft applied to a valid payload whose rank
\* is neither 1 nor 2, with one calibration per axis, raise NotImplementedError
\* and return no result; on a valid rank-1 or rank-2 payload they never raise
\* NotImplementedError.
C16_FourierRanks ==
    \A k \in 1 .. Len(calls) :
        LET src == xs[k]
            r == Outcome(k)
        IN  (calls[k].fn \in {"function_fft", "function_ifft"} /\ IsCalibratedInput(src)) =>
                IF Rank(src.data) \in {1, 2}
                THEN ~(r.kind = "raise" /\ r.exc = "NotImplementedError")
                ELSE r.kind = "raise" /\ r.exc = "NotImplementedError"

\* the inverse transform has been asked for a rank-3 payload
C16_Witness ==
    /\ Called(1, "function_ifft")
    /\ IsCalibratedInput(xs[1])
    /\ Rank(xs[1].data) = 3
    /\ result.kind = "raise"
    /\ result.exc = "NotImplementedError"

\* the five spatial filters
SpatialFilters ==
    { "function_sobel", "function_laplace", "function_gaussian_blur",
      "function_median_filter", "function_uniform_filter" }

\* C17: each spatial filter returns the input's intensity and dimensional
\* calibrations unchanged; for an RGB or RGBA input each colour channel of the
\* result is computed from that channel of the input alone, and the alpha
\* channel of the result equals the input's.
C17_SpatialFilters ==
    \A k \in 1 .. Len(calls) :
        LET src == xs[k]
            r == Outcome(k)
            out == r.val.data
            channel == Len(data_shape(src))
        IN  (calls[k].fn \in SpatialFilters /\ IsCalibratedInput(src)) =>
                /\ r.kind = "value"
                /\ r.val.has_data
                /\ r.val.intensity_calibration = src.intensity_calibration
                /\ r.val.dimensional_calibrations = src.dimensional_calibrations
                /\ is_shape_and_dtype_rgb_type(data_shape(src), data_dtype(src)) =>
                      /\ out.shape = data_shape(src)
                      /\ \A idx \in Indices(out.shape) :
                            out.elems[idx] = IF idx[channel] = 3 THEN src.data.elems[idx]
                                             ELSE ChannelComputed(idx[channel])

\* C18: function_line_profile called with an integration width that is <= 0
\* once truncated to an integer fails the assertion for every input, valid or
\* not, and never returns None; with a width >= 1 it returns None when the
\* input is invalid or has not exactly 2 dimensional calibrations, and
\* otherwise a result with the single calibration (0.0, the scale of source
\* axis 1, the units of source axis 1).
C18_LineProfile ==
    \A k \in 1 .. Len(calls) :
        LET src == xs[k]
            r == Outcome(k)
            width == ToInt(calls[k].arg.integration_width)
        IN  Called(k, "function_line_profile") =>
                IF width <= 0 THEN r.kind = "raise" /\ r.exc = "AssertionError"
                ELSE IF ~is_valid(src) \/ Len(src.dimensional_calibrations) # 2 THEN r = None
                ELSE /\ r.kind = "value"
                     /\ r.val.dimensional_calibrations
                           = << Calibration(RatInt(0), src.dimensional_calibrations[2].scale,
                                            src.dimensional_calibrations[2].units) >>

\* an input without payload has been profiled with a width that truncates to 0
C18_Witness ==
    /\ Called(1, "function_line_profile")
    /\ ~is_valid(xs[1])
    /\ calls[1].arg.integration_width = Rat(1, 2)
    /\ result.kind = "raise"
    /\ result.exc = "AssertionError"

\* C19: for every catalog entry, calculate_data (the step that calls the
\* numeric kernel) has not been executed when the entry returns its result;
\* it runs only later, when the payload of the result is first read.
C19_PayloadDeferred ==
    (Len(calls) >= 1 /\ result.kind = "value") => ~result.calculated

\* C20: for every valid input and every combination of transpose, flip_v and
\* flip_h, the payload returned by function_transpose_flip does not share
\* storage with the payload of the source.
C20_TransposeFlipCopies ==
    (/\ Called(Len(calls), "function_transpose_flip")
     /\ IsCalibratedInput(xs[Len(calls)])
     /\ result.kind = "value") =>
        ~result.view

\* C21: for every rank-2 data shape (rows, cols), even or odd, and every
\* input mask of that shape, the mask function_fourier_mask multiplies into
\* the data is 1 on row 0, row rows // 2, column 0 and column cols // 2, and
\* its value at (rows // 2 + i, cols // 2 + j) equals its value at
\* (rows // 2 - i, cols // 2 - j) whenever both positions are inside the
\* array. Two elements are equal for every input mask when they carry the
\* same tag.
C21_FourierMaskSymmetric ==
    \A k \in 1 .. Len(calls) :
        LET src == xs[k]
            mask == calls[k].arg
            r == Outcome(k)
            rows == data_shape(src)[1]
            cols == data_shape(src)[2]
            applied == r.val.data.elems
        IN  (/\ Called(k, "function_fourier_mask")
             /\ IsNumericInput(src) /\ Rank(src.data) = 2
             /\ mask.has_data /\ data_shape(mask) = data_shape(src)
             /\ r.kind = "value" /\ r.val.has_data) =>
                /\ \A idx \in Indices(data_shape(src)) :
                      (idx[1] \in {0, rows \div 2} \/ idx[2] \in {0, cols \div 2}) => applied[idx] = One
                /\ \A i \in -rows .. rows, j \in -cols .. cols :
                      LET here == << rows \div 2 + i, cols \div 2 + j >>
                          there == << rows \div 2 - i, cols \div 2 - j >>
                      IN  (here \in Indices(data_shape(src)) /\ there \in Indices(data_shape(src))) =>
                              applied[here] = applied[there]

\* the square of the scaling factor a transformed payload was multiplied by
ScalingSquared(a) ==
    LET tag == a.elems[NoShift(a.shape)]
    IN  SubSeq(tag, 2 * Len(a.shape) + 1, 2 * Len(a.shape) + 2)

\* C22: in function_ifft, for rank-1 and rank-2 payloads alike, the frequency
\* shift is applied to the input before the inverse transform and no shift is
\* applied to the output of the inverse transform; the scaling factor is
\* sqrt(N) (rank 1) or sqrt(rows * cols) (rank 2), the reciprocal of
\* function_fft's.
C22_InverseShiftsFirst ==
    \A k \in 1 .. Len(calls) :
        LET src == xs[k]
            r == Outcome(k)
            shape == data_shape(src)
        IN  (/\ Called(k, "function_ifft")
             /\ IsNumericInput(src) /\ Rank(src.data) \in {1, 2}) =>
                /\ r.kind = "value"
                /\ r.val.has_data
                /\ r.val.data = TransformedArray(shape, NoShift(shape), HalfExtents(shape),
                                                  RatInt(Product(shape)))
                /\ RatMul(ScalingSquared(r.val.data),
                          ScalingSquared(function_fft_calculate_data(src).data)) = RatInt(1)

\* C23: for every valid 2-D input and every crop bounds in [0, 1], the
\* calibration function_crop returns agrees with the pixels it keeps: on each
\* axis the new offset is old_offset + (the integer start pixel used for the
\* slice) * old_scale, so that output index 0 has the physical coordinate the
\* first retained source pixel had, also when shape[axis] * bound_start[axis]
\* is not an integer.
C23_CropOffsetMatchesPixels ==
    \A k \in 1 .. Len(calls) :
        LET src == xs[k]
            r == Outcome(k)
            bounds == calls[k].arg
            start == function_crop_bounds_int(src, bounds)[1]
        IN  (/\ Called(k, "function_crop") /\ IsCalibratedInput(src) /\ Rank(src.data) = 2
             /\ r.kind = "value" /\ r.val.has_data) =>
                \A i \in 1 .. 2 :
                    LET c == src.dimensional_calibrations[i]
                    IN  /\ r.val.dimensional_calibrations[i].offset
                              = RatAdd(c.offset, RatMul(RatInt(start[i]), c.scale))
                        /\ \A idx \in Indices(data_shape(r.val)) :
                              idx[i] = 0 => r.val.data.elems[idx][i] = start[i]

\* the number of terms first, first + step, ... strictly below limit, step >= 1
ArangeCount(first, limit, step) ==
    IF limit <= first THEN 0 ELSE (limit - first + step - 1) \div step

IsInteger(q) == q # NoArgument /\ q[2] = 1

\* C24: arange(start, stop, step) with integer arguments and step >= 1 (1 when
\* left out) returns the rank-1 payload start, start + step, start + 2 * step,
\* ... of the terms strictly below stop, and arange(n), with stop left out,
\* returns 0, 1, ..., n - 1; the payload is paired with uncalibrated
\* intensity and dimensional calibrations.
C24_Arange ==
    \A k \in 1 .. Len(calls) :
        LET a == calls[k].arg
            r == Outcome(k)
            first == IF a.stop = NoArgument THEN 0 ELSE a.start[1]
            limit == IF a.stop = NoArgument THEN a.start[1] ELSE a.stop[1]
            step == IF a.step = NoArgument THEN 1 ELSE a.step[1]
            n == ArangeCount(first, limit, step)
        IN  (/\ Called(k, "arange") /\ IsInteger(a.start)
             /\ a.stop # NoArgument => IsInteger(a.stop)
             /\ a.step # NoArgument => (IsInteger(a.step) /\ a.step[1] >= 1)) =>
                /\ r.kind = "value" /\ r.val.has_data
                /\ data_shape(r.val) = << n >>
                /\ \A i \in 0 .. n - 1 : r.val.data.elems[<< i >>] = RatInt(first + i * step)
                /\ r.val.intensity_calibration = Uncalibrated
                /\ r.val.dimensional_calibrations = << Uncalibrated >>

====
